---------------------------- MODULE Spec2Model ----------------------------
(***************************************************************************)
(* Model of the SMOTE synthetic-data notebook (stroke data set): the cells *)
(* that split the real data, oversample each class with SMOTE, repair the  *)
(* feature types, annotate every synthetic record with the distance to the *)
(* nearest real record, filter the pool and rebalance it.                  *)
(*                                                                         *)
(* Numbers.  A feature value v is held as the integer v * Scale, so that   *)
(* the interpolation fractions j / Scale (j in 0 .. Scale-1) give exact    *)
(* values.  A distance is held as its square in units of 1e-6, truncated   *)
(* (sqrt is monotone, so every comparison the notebook makes on a distance *)
(* is the same comparison on this number; 0.001 is 1 unit).                *)
(*                                                                         *)
(* Randomness.  Every random call of the notebook (train_test_split,       *)
(* SMOTE, DataFrame.sample) is made with random_state=None and so draws    *)
(* from numpy's one global generator, which no cell seeds.  The variable   *)
(* rng is the state of that generator; its initial value is arbitrary and  *)
(* a small congruential generator stands for the Mersenne twister.         *)
(***************************************************************************)
EXTENDS Integers, Sequences, FiniteSets, TLC

(***************************************************************************)
(* Bounds of the model                                                     *)
(***************************************************************************)
\* feature values are held in units of 1/Scale; SMOTE's step is j/Scale
Scale == 4
\* initial states of the global random generator: 0 .. MaxSeed
MaxSeed == 47
\* imblearn's SMOTE(k_neighbors=5) needs 6 records of a class; the model
\* oversamples classes of two to five records with a neighbourhood scaled
\* down to this size
k_neighbors == 1
\* largest count asked of make_synthetic_data_smote when it is called on its own
MaxSamples == 3
\* initial generator states tried by a second run of the notebook
MaxRerunSeed == 2
\* the largest raw integer-role value tried by the repair cell on its own
MaxRawAge == 4
\* the largest pool handed to the closest-fraction removal on its own
MaxPool == 11

(***************************************************************************)
(* The feature schema (cell "Prepare lists of categorical, integer and     *)
(* binary features")                                                       *)
(***************************************************************************)
X_col_names ==
  << "age", "hypertension", "avg_glucose_level",
     "gender_female", "gender_male",
     "work_type_private", "work_type_self" >>

NumCols == Len(X_col_names)
Cols == 1 .. NumCols

categorical == << "gender_", "work_type_" >>

\* the prefix of a column name, as x[0:len(col)] == col finds it
HasPrefix(name, prefix) ==
  CASE prefix = "gender_"    -> name \in {"gender_female", "gender_male"}
    [] prefix = "work_type_" -> name \in {"work_type_private", "work_type_self"}
    [] OTHER                 -> FALSE

RECURSIVE ColsFrom(_, _)
ColsFrom(c, prefix) ==
  IF c > NumCols THEN << >>
  ELSE IF HasPrefix(X_col_names[c], prefix)
       THEN << c >> \o ColsFrom(c + 1, prefix)
       ELSE ColsFrom(c + 1, prefix)

\* one list of column positions per categorical prefix, in declared order
one_hot_cols == [g \in 1 .. Len(categorical) |-> ColsFrom(1, categorical[g])]

integer_cols == << 1 >>
binary_cols == << 2 >>

(***************************************************************************)
(* Arithmetic helpers                                                      *)
(***************************************************************************)
Abs(a) == IF a < 0 THEN -a ELSE a

RECURSIVE Gcd(_, _)
Gcd(a, b) == IF b = 0 THEN a ELSE Gcd(b, a % b)

Lcm(a, b) == (a \div Gcd(a, b)) * b

RECURSIVE SumSeq(_)
SumSeq(s) == IF s = << >> THEN 0 ELSE Head(s) + SumSeq(Tail(s))

RECURSIVE LcmSeq(_)
LcmSeq(s) == IF s = << >> THEN 1 ELSE Lcm(Head(s), LcmSeq(Tail(s)))

RECURSIVE SelectRows(_, _)
SelectRows(s, keep) ==
  IF s = << >> THEN << >>
  ELSE IF keep[1] THEN << Head(s) >> \o SelectRows(Tail(s), Tail(keep))
       ELSE SelectRows(Tail(s), Tail(keep))

\* np.sum(column == value)
CountEq(s, v) == Cardinality({i \in DOMAIN s : s[i] = v})

(***************************************************************************)
(* numpy's global random generator                                         *)
(***************************************************************************)
\* one step of the generator
NextRng(s) == (s * 25173 + 13849) % 65536

\* the number in 0 .. n-1 read off a generator state
RngValue(s, n) == (s \div 256) % n

\* randint(0, n, size=count), or uniform(size=count) read in steps of 1/n:
\* the values drawn and the generator state left behind
RECURSIVE RandInts(_, _, _)
RandInts(s, n, count) ==
  IF count = 0 THEN [vals |-> << >>, rng |-> s]
  ELSE LET s1 == NextRng(s)
           rest == RandInts(s1, n, count - 1)
       IN [vals |-> << RngValue(s1, n) >> \o rest.vals, rng |-> rest.rng]

Swap(p, i, j) == [p EXCEPT ![i] = p[j], ![j] = p[i]]

\* numpy's shuffle: for i = n-1 down to 1, swap x[i] with x[randint(0, i+1)]
RECURSIVE FisherYates(_, _, _)
FisherYates(p, i, s) ==
  IF i < 2 THEN [perm |-> p, rng |-> s]
  ELSE LET s1 == NextRng(s)
           j == RngValue(s1, i) + 1
       IN FisherYates(Swap(p, i, j), i - 1, s1)

\* permutation(n): positions 1 .. n in random order
Permutation(n, s) == FisherYates([i \in 1 .. n |-> i], n, s)

(***************************************************************************)
(* The real data (cell "Read CSV into Pandas DataFrame"): every column is  *)
(* a float, the label column is stroke                                     *)
(***************************************************************************)
Row(age, hyp, glucose, female, male, private, self, stroke) ==
  [x |-> << age * Scale, hyp * Scale, glucose * Scale,
            female * Scale, male * Scale, private * Scale, self * Scale >>,
   y |-> stroke]

\* four records of each class, neighbours that differ in one typed column
Data1 ==
  << Row(2, 0, 1, 1, 0, 1, 0, 0), Row(4, 1, 3, 0, 1, 0, 1, 1),
     Row(3, 0, 1, 1, 0, 1, 0, 0), Row(5, 1, 3, 0, 1, 0, 1, 1),
     Row(3, 1, 2, 0, 1, 1, 0, 0), Row(5, 0, 4, 1, 0, 0, 1, 1),
     Row(4, 0, 3, 0, 1, 0, 1, 0), Row(4, 1, 4, 1, 0, 1, 0, 1) >>

\* an imbalanced data set: six records without stroke (two of them equal),
\* two with
Data2 ==
  << Row(2, 0, 1, 1, 0, 1, 0, 0), Row(2, 0, 1, 1, 0, 1, 0, 0),
     Row(5, 1, 4, 0, 1, 0, 1, 1), Row(3, 0, 2, 1, 0, 0, 1, 0),
     Row(3, 1, 2, 0, 1, 1, 0, 0), Row(4, 0, 3, 0, 1, 0, 1, 0),
     Row(4, 1, 3, 1, 0, 0, 1, 1), Row(2, 1, 1, 0, 1, 1, 0, 0) >>

\* a degenerate data set: the records of a class are all equal
Data3 ==
  << Row(2, 0, 1, 1, 0, 1, 0, 0), Row(5, 1, 4, 0, 1, 0, 1, 1),
     Row(2, 0, 1, 1, 0, 1, 0, 0), Row(5, 1, 4, 0, 1, 0, 1, 1),
     Row(2, 0, 1, 1, 0, 1, 0, 0), Row(5, 1, 4, 0, 1, 0, 1, 1),
     Row(2, 0, 1, 1, 0, 1, 0, 0), Row(5, 1, 4, 0, 1, 0, 1, 1) >>

Datasets == {Data1, Data2, Data3}

VARIABLES
  data,                  \* the real data frame: rows [x, y]
  rng,                   \* state of numpy's global random generator
  row_is_view,           \* whether iterrows yields views of synth_df's rows
  pc,                    \* the last cell that completed
  error,                 \* "" or the exception that stopped the run
  X_train, y_train, X_test, y_test,
  X_train_std, X_test_std,
  required_smote_count,
  X_synthetic, y_synthetic,
  synth_df,              \* the synthetic pool
  runs,                  \* how many times the notebook has been run
  previous_synth_df,     \* the final pool of the previous run
  identical_proportion,  \* what the identity removal reports
  model, model_synth,    \* the classifiers fitted on real and synthetic data
  y_pred_train, y_pred_test, y_pred_test_synth,
  y_probs, y_probs_synthetic

\* the classifiers and what they predicted
evaluation_vars ==
  << model, model_synth, y_pred_train, y_pred_test, y_pred_test_synth,
     y_probs, y_probs_synthetic >>

vars ==
  << data, rng, row_is_view, pc, error, X_train, y_train, X_test, y_test,
     X_train_std, X_test_std, required_smote_count, X_synthetic, y_synthetic,
     synth_df, runs, previous_synth_df, identical_proportion, evaluation_vars >>

\* the value of a column that does not exist yet
NoValue == -1

\* an array that has not been computed
NoArray == [sc |-> [n |-> 0, sum |-> << >>, sumsq |-> << >>], rows |-> << >>]

Labels(d) == [i \in DOMAIN d |-> d[i].y]

(***************************************************************************)
(* Cell "Record number in each class"                                      *)
(***************************************************************************)
number_positive_stroke == CountEq(Labels(data), 1)
number_negative_stroke == CountEq(Labels(data), 0)

(***************************************************************************)
(* Cell "Divide into training and test sets"                               *)
(***************************************************************************)
\* train_test_split(X, y, test_size = 0.25): n_test = ceil(0.25 * n); the
\* first n_test positions of a random permutation are the test set, the
\* others the training set
train_test_split(d, s) ==
  LET n == Len(d)
      n_test == (n + 3) \div 4
      n_train == n - n_test
      p == Permutation(n, s)
  IN [X_train |-> [i \in 1 .. n_train |-> d[p.perm[n_test + i]].x],
      y_train |-> [i \in 1 .. n_train |-> d[p.perm[n_test + i]].y],
      X_test  |-> [i \in 1 .. n_test |-> d[p.perm[i]].x],
      y_test  |-> [i \in 1 .. n_test |-> d[p.perm[i]].y],
      rng     |-> p.rng]

(***************************************************************************)
(* Cell "Standardise data"                                                 *)
(***************************************************************************)
\* StandardScaler.fit: the statistics of every column of X
Fit(X) ==
  [n     |-> Len(X),
   sum   |-> [c \in Cols |-> SumSeq([i \in DOMAIN X |-> X[i][c]])],
   sumsq |-> [c \in Cols |-> SumSeq([i \in DOMAIN X |-> X[i][c] * X[i][c]])]]

\* a standardised array is held as the raw rows and the scaler applied to
\* them: (x - mean) / std is not an integer
Transform(sc, X) == [sc |-> sc, rows |-> X]

\* a wrong standardise_data: the scaler is fitted again on the second array
standardise_data_refitted(A, B) ==
  [train_std |-> Transform(Fit(A), A), test_std |-> Transform(Fit(B), B)]

standardise_data(A, B) ==
  LET sc == Fit(A)
  IN [train_std |-> Transform(sc, A), test_std |-> Transform(sc, B)]

\* n^2 * variance of column c; StandardScaler divides by 1 when it is 0
VarN2(sc, c) == sc.n * sc.sumsq[c] - sc.sum[c] * sc.sum[c]

(***************************************************************************)
(* SMOTE(sampling_strategy = {0: n_class_0, 1: n_class_1}).fit_resample    *)
(***************************************************************************)
\* positions ordered by increasing key, equal keys by position
MinPos(key, S) ==
  CHOOSE i \in S : \A j \in S : key[i] < key[j] \/ (key[i] = key[j] /\ i <= j)

RECURSIVE ArgSortSet(_, _)
ArgSortSet(key, S) ==
  IF S = {} THEN << >>
  ELSE LET m == MinPos(key, S) IN << m >> \o ArgSortSet(key, S \ {m})

ArgSort(key) == ArgSortSet(key, DOMAIN key)

\* squared Euclidean distance of two raw rows
SqEuclid(a, b) == SumSeq([c \in Cols |-> (a[c] - b[c]) * (a[c] - b[c])])

\* nn_k_.kneighbors(X_class, return_distance=False)[:, 1:] with
\* n_neighbors = k_neighbors + 1: for every row the positions of its nearest
\* rows, the nearest one (the row itself) dropped
NearestInClass(X_class) ==
  [r \in DOMAIN X_class |->
     LET order == ArgSort([j \in DOMAIN X_class |-> SqEuclid(X_class[r], X_class[j])])
     IN SubSeq(order, 2, k_neighbors + 1)]

\* a wrong _make_samples: the step is taken away from the base row,
\* X[row] - step * (X[nn] - X[row])
make_samples_away(X_class, nns, n_samples, s) ==
  LET idx == RandInts(s, Len(X_class) * k_neighbors, n_samples)
      steps == RandInts(idx.rng, Scale, n_samples)
      NewRow(i) ==
        LET row == (idx.vals[i] \div k_neighbors) + 1
            col == (idx.vals[i] % k_neighbors) + 1
            p == X_class[row]
            q == X_class[nns[row][col]]
        IN [c \in Cols |-> p[c] - (steps.vals[i] * (q[c] - p[c])) \div Scale]
  IN [X_new |-> [i \in 1 .. n_samples |-> NewRow(i)], rng |-> steps.rng]

\* _make_samples: n_samples new rows, each X[row] + step * (X[nn] - X[row])
\* for a random row, a random one of its neighbours and a random step in [0, 1)
make_samples(X_class, nns, n_samples, s) ==
  LET idx == RandInts(s, Len(X_class) * k_neighbors, n_samples)
      steps == RandInts(idx.rng, Scale, n_samples)
      NewRow(i) ==
        LET row == (idx.vals[i] \div k_neighbors) + 1
            col == (idx.vals[i] % k_neighbors) + 1
            p == X_class[row]
            q == X_class[nns[row][col]]
        IN [c \in Cols |-> p[c] + (steps.vals[i] * (q[c] - p[c])) \div Scale]
  IN [X_new |-> [i \in 1 .. n_samples |-> NewRow(i)], rng |-> steps.rng]

\* a wrong selection: the rows of every class
RowsOfAnyClass(X, y, c) == X

\* the rows of class c, in the order of the input
ClassRows(X, y, c) == SelectRows(X, [i \in DOMAIN y |-> y[i] = c])

\* a wrong resampling of one class: a class with fewer than k_neighbors + 1
\* records is oversampled with copies of its first record
ResampleClassAnySize(X, y, c, n_class, s) ==
  LET X_class == ClassRows(X, y, c)
      n_samples == n_class - Len(X_class)
  IN IF X_class = << >> \/ n_samples < 0
     THEN [ok |-> FALSE, X_new |-> << >>, rng |-> s]
     ELSE IF n_samples = 0
     THEN [ok |-> TRUE, X_new |-> << >>, rng |-> s]
     ELSE IF Len(X_class) < k_neighbors + 1
     THEN [ok |-> TRUE, X_new |-> [i \in 1 .. n_samples |-> X_class[1]], rng |-> s]
     ELSE LET made == make_samples(X_class, NearestInClass(X_class), n_samples, s)
          IN [ok |-> TRUE, X_new |-> made.X_new, rng |-> made.rng]

\* one class of fit_resample: nothing when no sample is wanted of it, a
\* ValueError when the class is absent, when the count wanted is below the
\* class's own count or when the class has no k_neighbors + 1 records
ResampleClass(X, y, c, n_class, s) ==
  LET X_class == ClassRows(X, y, c)
      n_samples == n_class - Len(X_class)
  IN IF X_class = << >> \/ n_samples < 0
     THEN [ok |-> FALSE, X_new |-> << >>, rng |-> s]
     ELSE IF n_samples = 0
     THEN [ok |-> TRUE, X_new |-> << >>, rng |-> s]
     ELSE IF Len(X_class) < k_neighbors + 1
     THEN [ok |-> FALSE, X_new |-> << >>, rng |-> s]
     ELSE LET made == make_samples(X_class, NearestInClass(X_class), n_samples, s)
          IN [ok |-> TRUE, X_new |-> made.X_new, rng |-> made.rng]

\* the resampled data: the input rows, then the new rows of class 0, then
\* those of class 1
fit_resample(X, y, n_class_0, n_class_1, s) ==
  LET r0 == ResampleClass(X, y, 0, n_class_0, s)
      r1 == ResampleClass(X, y, 1, n_class_1, r0.rng)
      absent == CountEq(y, 0) = 0 \/ CountEq(y, 1) = 0
  IN IF absent \/ ~r0.ok \/ ~r1.ok
     THEN [ok |-> FALSE, X_resampled |-> << >>, y_resampled |-> << >>,
           rng |-> IF absent THEN s ELSE IF r0.ok THEN r1.rng ELSE r0.rng]
     ELSE [ok |-> TRUE,
           X_resampled |-> X \o r0.X_new \o r1.X_new,
           y_resampled |-> y \o [i \in DOMAIN r0.X_new |-> 0]
                             \o [i \in DOMAIN r1.X_new |-> 1],
           rng |-> r1.rng]

(***************************************************************************)
(* Cell "Function to create synthetic data"                                *)
(***************************************************************************)
\* X_resampled[len(X):]: the rows after the first n, each with its index
\* label (its position in the resampled frame, from 0)
RowsAfter(X_resampled, n) ==
  [i \in 1 .. (Len(X_resampled) - n) |->
     [index |-> n + i - 1, x |-> X_resampled[n + i]]]

\* a wrong slice: the labels of the input rows are returned as well
ValuesAll(y_resampled, n) == y_resampled

ValuesAfter(y_resampled, n) ==
  [i \in 1 .. (Len(y_resampled) - n) |-> y_resampled[n + i]]

make_synthetic_data_smote(X, y, number_of_samples, s) ==
  IF Len(number_of_samples) < 2
  THEN [error |-> "IndexError", X_synthetic |-> << >>, y_synthetic |-> << >>,
        rng |-> s]
  ELSE LET count_label_0 == CountEq(y, 0)
           count_label_1 == CountEq(y, 1)
           n_class_0 == number_of_samples[1] + count_label_0
           n_class_1 == number_of_samples[2] + count_label_1
           r == fit_resample(X, y, n_class_0, n_class_1, s)
       IN IF ~r.ok
          THEN [error |-> "ValueError", X_synthetic |-> << >>,
                y_synthetic |-> << >>, rng |-> r.rng]
          ELSE [error |-> "",
                X_synthetic |-> RowsAfter(r.X_resampled, Len(X)),
                y_synthetic |-> ValuesAfter(r.y_resampled, Len(y)),
                rng |-> r.rng]

(***************************************************************************)
(* Cell "Generate raw synthetic data"                                      *)
(***************************************************************************)
\* np.unique(y_train, return_counts = True): the counts of the classes that
\* occur, in increasing order of the class
original_frequency(y) ==
  LET c0 == CountEq(y, 0)
      c1 == CountEq(y, 1)
  IN (IF c0 > 0 THEN << c0 >> ELSE << >>) \o (IF c1 > 0 THEN << c1 >> ELSE << >>)

\* a wrong sizing: three times the count of each class
RequiredSmoteCountTripled(y) == [i \in DOMAIN original_frequency(y) |-> original_frequency(y)[i] * 3]

\* list(original_frequency * 2)
RequiredSmoteCount(y) == [i \in DOMAIN original_frequency(y) |-> original_frequency(y)[i] * 2]

(***************************************************************************)
(* Cell "Function to process raw synthetic categorical data to one-hot     *)
(* encoded"                                                                *)
(***************************************************************************)
\* a wrong argmax: the last position of the highest value
ArgMaxLast(x) ==
  CHOOSE i \in DOMAIN x : \A j \in DOMAIN x : x[i] > x[j] \/ (x[i] = x[j] /\ i >= j)

\* np.argmax: the first position of the highest value
ArgMax(x) ==
  CHOOSE i \in DOMAIN x : \A j \in DOMAIN x : x[i] > x[j] \/ (x[i] = x[j] /\ i <= j)

\* a wrong make_one_hot: np.argmin in the place of np.argmax
make_one_hot_of_lowest(x) ==
  LET lowest == CHOOSE i \in DOMAIN x :
                  \A j \in DOMAIN x : x[i] < x[j] \/ (x[i] = x[j] /\ i <= j)
  IN [i \in DOMAIN x |-> IF i = lowest THEN Scale ELSE 0]

\* x *= 0.0, then x[highest] = 1.0
make_one_hot(x) ==
  LET highest == ArgMax(x)
  IN [i \in DOMAIN x |-> IF i = highest THEN Scale ELSE 0]

(***************************************************************************)
(* Cell "Process raw synthetic data and show a sample"                     *)
(***************************************************************************)
\* a wrong loop body: the 1 goes to the group's column only when it holds
\* the highest value of all the one-hot columns of the record
OneHotRowOfWholeRecord(row, one_hot_list) ==
  LET highest == CHOOSE c \in Cols :
                   /\ \E g \in DOMAIN one_hot_cols : \E i \in DOMAIN one_hot_cols[g] : one_hot_cols[g][i] = c
                   /\ \A g \in DOMAIN one_hot_cols : \A i \in DOMAIN one_hot_cols[g] :
                        LET d == one_hot_cols[g][i]
                        IN row[c] > row[d] \/ (row[c] = row[d] /\ c <= d)
  IN [c \in Cols |->
        IF \E i \in DOMAIN one_hot_list : one_hot_list[i] = c
        THEN (IF c = highest THEN Scale ELSE 0)
        ELSE row[c]]

\* the body of the iterrows loop on one row: x = row[one_hot_list],
\* x_one_hot = make_one_hot(x), row[x_one_hot.index] = x_one_hot.values
OneHotRow(row, one_hot_list) ==
  LET x == [i \in DOMAIN one_hot_list |-> row[one_hot_list[i]]]
      x_one_hot == make_one_hot(x)
  IN [c \in Cols |->
        IF \E i \in DOMAIN one_hot_list : one_hot_list[i] = c
        THEN x_one_hot[CHOOSE i \in DOMAIN one_hot_list : one_hot_list[i] = c]
        ELSE row[c]]

\* for one_hot_list in one_hot_cols, from group g on
RECURSIVE OneHotGroups(_, _)
OneHotGroups(row, g) ==
  IF g > Len(one_hot_cols) THEN row
  ELSE OneHotGroups(OneHotRow(row, one_hot_cols[g]), g + 1)

\* what the loop leaves in synth_df: the row it wrote when iterrows yields
\* a view of the frame's row, the row as it was when iterrows yields a copy
\* (pandas: "depending on the data types, the iterator returns a copy and
\* not a view, and writing to it will have no effect")
IterrowsWrite(row, view) == IF view THEN OneHotGroups(row, 1) ELSE row

\* a wrong rounding: the fraction is dropped, as int() does
Round0Truncate(v) == (v \div Scale) * Scale

\* Series.round(0): numpy rounds to the nearest whole number, a half to the
\* even one
Round0(v) ==
  LET q == v \div Scale
      r == v % Scale
  IN IF 2 * r < Scale THEN q * Scale
     ELSE IF 2 * r > Scale THEN (q + 1) * Scale
     ELSE IF q % 2 = 0 THEN q * Scale ELSE (q + 1) * Scale

\* np.clip(v, 0, 1)
Clip01(v) == IF v < 0 THEN 0 ELSE IF v > Scale THEN Scale ELSE v

InSeq(s, v) == \E i \in DOMAIN s : s[i] = v

\* a wrong rounding: every column is rounded
RoundEveryCol(row) == [c \in Cols |-> Round0(row[c])]

\* synth_df[col] = synth_df[col].round(0) for the integer columns
RoundIntegerCols(row) ==
  [c \in Cols |-> IF InSeq(integer_cols, c) THEN Round0(row[c]) ELSE row[c]]

\* a wrong repair of the binary columns: rounded and not clipped
RoundBinaryCols(row) ==
  [c \in Cols |-> IF InSeq(binary_cols, c) THEN Round0(row[c]) ELSE row[c]]

\* synth_df[col] = np.clip(synth_df[col], 0, 1).round(0) for the binary columns
ClipRoundBinaryCols(row) ==
  [c \in Cols |-> IF InSeq(binary_cols, c) THEN Round0(Clip01(row[c])) ELSE row[c]]

\* the three repairs of one record, in the order of the cell
RepairRow(row, view) ==
  ClipRoundBinaryCols(RoundIntegerCols(IterrowsWrite(row, view)))

\* a wrong sample: the whole frame in random order, whatever n is
sample_frac(df, n, s) ==
  IF n > Len(df)
  THEN [ok |-> FALSE, rows |-> << >>, rng |-> s]
  ELSE LET p == Permutation(Len(df), s)
       IN [ok |-> TRUE, rows |-> [i \in DOMAIN df |-> df[p.perm[i]]], rng |-> p.rng]

\* a wrong sample: every row is drawn anew from the whole frame, as
\* sample(n, replace=True) does
sample_with_replacement(df, n, s) ==
  IF n > Len(df)
  THEN [ok |-> FALSE, rows |-> << >>, rng |-> s]
  ELSE LET drawn == RandInts(s, Len(df), n)
       IN [ok |-> TRUE, rows |-> [i \in 1 .. n |-> df[drawn.vals[i] + 1]],
           rng |-> drawn.rng]

\* DataFrame.sample(n): the rows at the first n positions of a random
\* permutation; a ValueError when n is larger than the frame
sample(df, n, s) ==
  IF n > Len(df)
  THEN [ok |-> FALSE, rows |-> << >>, rng |-> s]
  ELSE LET p == Permutation(Len(df), s)
       IN [ok |-> TRUE, rows |-> [i \in 1 .. n |-> df[p.perm[i]]], rng |-> p.rng]

\* a wrong shuffle: the label column stays where it was while the other
\* columns are permuted
ShuffleApartFromLabel(df, s) ==
  LET p == Permutation(Len(df), s)
  IN [ok |-> TRUE,
      rows |-> [i \in DOMAIN df |-> [df[p.perm[i]] EXCEPT !.stroke = df[i].stroke]],
      rng |-> p.rng]

\* DataFrame.sample(frac=1.0)
Shuffle(df, s) == sample(df, Len(df), s)

\* the frame of the repaired records, the label column added from
\* list(y_synthetic) by position
ProcessedFrame(Xs, ys, view) ==
  [i \in DOMAIN Xs |->
     [index |-> Xs[i].index,
      x |-> RepairRow(Xs[i].x, view),
      stroke |-> ys[i],
      distance_to_closest_real |-> NoValue,
      closest_X_real_row_index |-> NoValue]]

(***************************************************************************)
(* Cell "Find nearest original data point to each synthetic data point"    *)
(***************************************************************************)
\* the scale of column c is sqrt(VarN2) / n, or 1 when the variance is 0
ScaleDen(sc, c) == IF VarN2(sc, c) > 0 THEN VarN2(sc, c) ELSE Scale * Scale
ScaleNum(sc, c) == IF VarN2(sc, c) > 0 THEN sc.n * sc.n ELSE 1

\* the common denominator of the squared distances under scaler sc
DistDen(sc) == LcmSeq([c \in Cols |-> ScaleDen(sc, c)])

\* floor(1000000 * num / den), by long division
Micro(num, den) ==
  LET q0 == num \div den
      r0 == num % den
      q1 == (r0 * 1000) \div den
      r1 == (r0 * 1000) % den
      q2 == (r1 * 1000) \div den
  IN q0 * 1000000 + q1 * 1000 + q2

\* squared Euclidean distance of two rows standardised with sc, in 1e-6
StdSqDist(sc, a, b) ==
  LET den == DistDen(sc)
      num == SumSeq([c \in Cols |->
               (a[c] - b[c]) * (a[c] - b[c]) * ScaleNum(sc, c)
                 * (den \div ScaleDen(sc, c))])
  IN Micro(num, den)

\* NearestNeighbors(n_neighbors=1).fit(real).kneighbors(query): for every
\* query row the distance to the nearest real row and its position (from 0)
kneighbors(sc, real, query) ==
  [i \in DOMAIN query |->
     LET d == [j \in DOMAIN real |-> StdSqDist(sc, query[i], real[j])]
         nearest == MinPos(d, DOMAIN real)
     IN [dist |-> d[nearest], idx |-> nearest - 1]]

\* a wrong reference set: the test rows before the training rows
concatenate_test_first(train_rows, test_rows) == test_rows \o train_rows

\* X_real_std = np.concatenate([X_train_std, X_test_std], axis=0)
concatenate(train_rows, test_rows) == train_rows \o test_rows

\* a wrong assignment: the indices are written to the label column as well
AssignNearestAndLabel(df, found) ==
  [j \in DOMAIN df |->
     [df[j] EXCEPT !.distance_to_closest_real = found[j].dist,
                   !.closest_X_real_row_index = found[j].idx,
                   !.stroke = found[j].idx]]

\* synth_df[column] = list(...): the list is assigned by position
AssignNearest(df, found) ==
  [j \in DOMAIN df |->
     [df[j] EXCEPT !.distance_to_closest_real = found[j].dist,
                   !.closest_X_real_row_index = found[j].idx]]

(***************************************************************************)
(* Cells "Remove identical points", "Remove points closest to original     *)
(* data"                                                                   *)
(***************************************************************************)
\* 0.001, as a squared distance in 1e-6
identical_threshold == 1

\* identical = synth_df['distance_to_closest_real'] < 0.001
IsIdentical(row) == row.distance_to_closest_real < identical_threshold

\* a wrong removal: the mask is computed and not applied
RemoveIdenticalUnmasked(df) == df

\* mask = identical == False; synth_df[mask]
RemoveIdentical(df) == SelectRows(df, [j \in DOMAIN df |-> ~IsIdentical(df[j])])

\* proportion_to_remove = 0.1, in percent
proportion_to_remove == 10

\* a wrong sort: ascending, the smallest distance first
SortByDistanceAscending(df) ==
  LET order == ArgSort([j \in DOMAIN df |-> df[j].distance_to_closest_real])
  IN [i \in DOMAIN df |-> df[order[i]]]

\* sort_values('distance_to_closest_real', ascending=False): the largest
\* distance first, equal distances in the order of the frame
SortByDistanceDescending(df) ==
  LET order == ArgSort([j \in DOMAIN df |-> 0 - df[j].distance_to_closest_real])
  IN [i \in DOMAIN df |-> df[order[i]]]

\* a wrong count: the product rounded to the nearest whole number
NumberToKeepRounded(n) == (n * (100 - proportion_to_remove) + 50) \div 100

\* int(len(synth_by_distance) * (1 - proportion_to_remove))
NumberToKeep(n) == (n * (100 - proportion_to_remove)) \div 100

\* synth_by_distance.head(number_to_keep)
KeepFarthest(df) == SubSeq(SortByDistanceDescending(df), 1, NumberToKeep(Len(df)))

(***************************************************************************)
(* Cell "Show five examples with their closest data points"                *)
(***************************************************************************)
\* synth_df.sample(1), times over: whether every draw succeeded and the
\* generator state left behind
RECURSIVE SampleOneRepeatedly(_, _, _)
SampleOneRepeatedly(df, times, s) ==
  IF times = 0 THEN [ok |-> TRUE, rng |-> s]
  ELSE LET one == sample(df, 1, s)
       IN IF ~one.ok THEN [ok |-> FALSE, rng |-> s]
          ELSE SampleOneRepeatedly(df, times - 1, one.rng)

(***************************************************************************)
(* Cell "Sample from synthetic data to get same size / balance as the      *)
(* original data"                                                          *)
(***************************************************************************)
\* synth_df[synth_df['stroke'] == label]
WithLabel(df, label) == SelectRows(df, [j \in DOMAIN df |-> df[j].stroke = label])

\* a wrong rebalancing: each draw takes what the pool has when it has less
\* than the count wanted
SampleToBalanceClamped(df, n_positive, n_negative, s) ==
  LET positive == WithLabel(df, 1)
      negative == WithLabel(df, 0)
      Min(a, b) == IF a < b THEN a ELSE b
      synth_positive_stroke == sample(positive, Min(n_positive, Len(positive)), s)
      synth_negative_stroke ==
        sample(negative, Min(n_negative, Len(negative)), synth_positive_stroke.rng)
      shuffled ==
        Shuffle(synth_positive_stroke.rows \o synth_negative_stroke.rows,
                synth_negative_stroke.rng)
  IN [ok |-> TRUE, rows |-> shuffled.rows, rng |-> shuffled.rng]

\* a wrong rebalancing: the pool is concatenated with the two draws
SampleToBalanceOntoPool(df, n_positive, n_negative, s) ==
  LET synth_positive_stroke == sample(WithLabel(df, 1), n_positive, s)
      synth_negative_stroke ==
        sample(WithLabel(df, 0), n_negative, synth_positive_stroke.rng)
      shuffled ==
        Shuffle(df \o synth_positive_stroke.rows \o synth_negative_stroke.rows,
                synth_negative_stroke.rng)
  IN IF ~synth_positive_stroke.ok
     THEN [ok |-> FALSE, rows |-> df, rng |-> s]
     ELSE IF ~synth_negative_stroke.ok
     THEN [ok |-> FALSE, rows |-> df, rng |-> synth_positive_stroke.rng]
     ELSE [ok |-> TRUE, rows |-> shuffled.rows, rng |-> shuffled.rng]

\* the two draws, the concatenation and the shuffle; a failed draw stops
\* the cell before synth_df is assigned
SampleToBalance(df, n_positive, n_negative, s) ==
  LET synth_positive_stroke == sample(WithLabel(df, 1), n_positive, s)
      synth_negative_stroke ==
        sample(WithLabel(df, 0), n_negative, synth_positive_stroke.rng)
      shuffled ==
        Shuffle(synth_positive_stroke.rows \o synth_negative_stroke.rows,
                synth_negative_stroke.rng)
  IN IF ~synth_positive_stroke.ok
     THEN [ok |-> FALSE, rows |-> df, rng |-> s]
     ELSE IF ~synth_negative_stroke.ok
     THEN [ok |-> FALSE, rows |-> df, rng |-> synth_positive_stroke.rng]
     ELSE [ok |-> TRUE, rows |-> shuffled.rows, rng |-> shuffled.rng]

(***************************************************************************)
(* Cells "Fit Logistic Regression model", "Use fitted model to make        *)
(* predictions", "Fit Logistic Regression model using synthetic data",     *)
(* "ROC Curves"                                                            *)
(*                                                                         *)
(* A fitted classifier is held as the scaler statistics of the array it    *)
(* was fitted on, and a prediction as the classifier and the array it was  *)
(* asked about: what LogisticRegression computes from them is not modelled.*)
(***************************************************************************)
\* a classifier that has not been fitted, a prediction that has not been made
NoModel == [fitted_on |-> NoArray.sc]
NoPrediction == [by |-> NoModel, of |-> NoArray]

\* LogisticRegression().fit(X_std, y): a ValueError when y holds one class
fit(X_std, y) ==
  IF CountEq(y, 0) = 0 \/ CountEq(y, 1) = 0
  THEN [ok |-> FALSE, model |-> NoModel]
  ELSE [ok |-> TRUE, model |-> [fitted_on |-> X_std.sc]]

\* m.predict(X_std), m.predict_proba(X_std)
predict(m, X_std) == [by |-> m, of |-> X_std]

\* a wrong report: the identical records as a share of the records kept
IdenticalMeanOfKept(df) ==
  [identical |-> Len(SelectRows(df, [j \in DOMAIN df |-> IsIdentical(df[j])])),
   of |-> Len(RemoveIdentical(df))]

\* identical.mean(): the number of records marked identical and the number
\* of records they are a proportion of
IdenticalMean(df) ==
  [identical |-> Len(SelectRows(df, [j \in DOMAIN df |-> IsIdentical(df[j])])),
   of |-> Len(df)]

NoProportion == [identical |-> NoValue, of |-> NoValue]

(***************************************************************************)
(* The notebook, one action per cell; a cell that raises stops the run     *)
(***************************************************************************)
\* no classifier fitted, nothing predicted
EvaluationNotRun ==
  /\ model = NoModel /\ model_synth = NoModel
  /\ y_pred_train = NoPrediction /\ y_pred_test = NoPrediction
  /\ y_pred_test_synth = NoPrediction
  /\ y_probs = NoPrediction /\ y_probs_synthetic = NoPrediction

\* the classifier of the real data has been fitted and has predicted
EvaluationOfRealData ==
  /\ model = fit(X_train_std, y_train).model
  /\ y_pred_train = predict(model, X_train_std)
  /\ y_pred_test = predict(model, X_test_std)
  /\ model_synth = NoModel /\ y_pred_test_synth = NoPrediction
  /\ y_probs = NoPrediction /\ y_probs_synthetic = NoPrediction

Init ==
  /\ data \in Datasets
  /\ rng \in 0 .. MaxSeed
  /\ row_is_view \in BOOLEAN
  /\ pc = "loaded"
  /\ error = ""
  /\ X_train = << >> /\ y_train = << >> /\ X_test = << >> /\ y_test = << >>
  /\ X_train_std = NoArray /\ X_test_std = NoArray
  /\ required_smote_count = << >>
  /\ X_synthetic = << >> /\ y_synthetic = << >>
  /\ synth_df = << >>
  /\ runs = 1
  /\ previous_synth_df = << >>
  /\ identical_proportion = NoProportion
  /\ EvaluationNotRun

Running(cell) == pc = cell /\ error = ""

\* X_train, X_test, y_train, y_test = train_test_split(X, y, test_size = 0.25)
TrainTestSplit ==
  /\ Running("loaded")
  /\ \E r \in {train_test_split(data, rng)} :
        /\ X_train' = r.X_train /\ y_train' = r.y_train
        /\ X_test' = r.X_test /\ y_test' = r.y_test
        /\ rng' = r.rng
  /\ pc' = "split"
  /\ UNCHANGED << data, row_is_view, error, X_train_std, X_test_std,
                  required_smote_count, X_synthetic, y_synthetic, synth_df,
                  runs, previous_synth_df, identical_proportion,
                  evaluation_vars >>

\* X_train_std, X_test_std = standardise_data(X_train, X_test)
StandardiseData ==
  /\ Running("split")
  /\ \E r \in {standardise_data(X_train, X_test)} :
        X_train_std' = r.train_std /\ X_test_std' = r.test_std
  /\ pc' = "standardised"
  /\ UNCHANGED << data, rng, row_is_view, error, X_train, y_train, X_test,
                  y_test, required_smote_count, X_synthetic, y_synthetic,
                  synth_df, runs, previous_synth_df, identical_proportion,
                  evaluation_vars >>

\* model = LogisticRegression(); model.fit(X_train_std, y_train)
FitModel ==
  /\ Running("standardised")
  /\ \E r \in {fit(X_train_std, y_train)} :
        /\ model' = r.model
        /\ IF r.ok THEN pc' = "fitted" /\ error' = ""
                   ELSE pc' = pc /\ error' = "ValueError"
  /\ UNCHANGED << data, rng, row_is_view, X_train, y_train, X_test, y_test,
                  X_train_std, X_test_std, required_smote_count, X_synthetic,
                  y_synthetic, synth_df, runs, previous_synth_df,
                  identical_proportion, model_synth, y_pred_train, y_pred_test,
                  y_pred_test_synth, y_probs, y_probs_synthetic >>

\* y_pred_train = model.predict(X_train_std);
\* y_pred_test = model.predict(X_test_std)
PredictWithModel ==
  /\ Running("fitted")
  /\ y_pred_train' = predict(model, X_train_std)
  /\ y_pred_test' = predict(model, X_test_std)
  /\ pc' = "predicted"
  /\ UNCHANGED << data, rng, row_is_view, error, X_train, y_train, X_test,
                  y_test, X_train_std, X_test_std, required_smote_count,
                  X_synthetic, y_synthetic, synth_df, runs, previous_synth_df,
                  identical_proportion, model, model_synth, y_pred_test_synth,
                  y_probs, y_probs_synthetic >>

\* required_smote_count = list(original_frequency * 2)
CountClasses ==
  /\ Running("predicted")
  /\ required_smote_count' = RequiredSmoteCount(y_train)
  /\ pc' = "counted"
  /\ UNCHANGED << data, rng, row_is_view, error, X_train, y_train, X_test,
                  y_test, X_train_std, X_test_std, X_synthetic, y_synthetic,
                  synth_df, runs, previous_synth_df, identical_proportion,
                  evaluation_vars >>

\* X_synthetic, y_synthetic = make_synthetic_data_smote(
\*     X_train, y_train, number_of_samples=required_smote_count)
GenerateRawSyntheticData ==
  /\ Running("counted")
  /\ \E r \in {make_synthetic_data_smote(X_train, y_train, required_smote_count, rng)} :
        /\ rng' = r.rng
        /\ error' = r.error
        /\ IF r.error = ""
           THEN /\ X_synthetic' = r.X_synthetic
                /\ y_synthetic' = r.y_synthetic
                /\ pc' = "generated"
           ELSE UNCHANGED << X_synthetic, y_synthetic, pc >>
  /\ UNCHANGED << data, row_is_view, X_train, y_train, X_test, y_test,
                  X_train_std, X_test_std, required_smote_count, synth_df,
                  runs, previous_synth_df, identical_proportion,
                  evaluation_vars >>

\* the repairs, the label column and the shuffle
ProcessRawSyntheticData ==
  /\ Running("generated")
  /\ \E r \in {Shuffle(ProcessedFrame(X_synthetic, y_synthetic, row_is_view), rng)} :
        synth_df' = r.rows /\ rng' = r.rng
  /\ pc' = "processed"
  /\ UNCHANGED << data, row_is_view, error, X_train, y_train, X_test, y_test,
                  X_train_std, X_test_std, required_smote_count, X_synthetic,
                  y_synthetic, runs, previous_synth_df, identical_proportion,
                  evaluation_vars >>

\* X_train_std, X_synth_std = standardise_data(X_train, X_synthetic);
\* X_real_std = np.concatenate([X_train_std, X_test_std]); the distances and
\* positions found for X_synth_std are stored in synth_df
FindNearestRealPoint ==
  /\ Running("processed")
  /\ \E r \in {standardise_data(X_train, [i \in DOMAIN X_synthetic |-> X_synthetic[i].x])} :
        /\ X_train_std' = r.train_std
        /\ synth_df' = AssignNearest(synth_df,
                          kneighbors(r.train_std.sc,
                                     concatenate(r.train_std.rows, X_test_std.rows),
                                     r.test_std.rows))
  /\ pc' = "annotated"
  /\ UNCHANGED << data, rng, row_is_view, error, X_train, y_train, X_test,
                  y_test, X_test_std, required_smote_count, X_synthetic,
                  y_synthetic, runs, previous_synth_df, identical_proportion,
                  evaluation_vars >>

\* synth_df = synth_df[identical == False]
RemoveIdenticalPoints ==
  /\ Running("annotated")
  /\ identical_proportion' = IdenticalMean(synth_df)
  /\ synth_df' = RemoveIdentical(synth_df)
  /\ pc' = "deduplicated"
  /\ UNCHANGED << data, rng, row_is_view, error, X_train, y_train, X_test,
                  y_test, X_train_std, X_test_std, required_smote_count,
                  X_synthetic, y_synthetic, runs, previous_synth_df,
                  evaluation_vars >>

\* synth_df = synth_by_distance.head(number_to_keep).sample(frac=1)
RemoveClosestPoints ==
  /\ Running("deduplicated")
  /\ \E r \in {Shuffle(KeepFarthest(synth_df), rng)} :
        synth_df' = r.rows /\ rng' = r.rng
  /\ pc' = "trimmed"
  /\ UNCHANGED << data, row_is_view, error, X_train, y_train, X_test, y_test,
                  X_train_std, X_test_std, required_smote_count, X_synthetic,
                  y_synthetic, runs, previous_synth_df, identical_proportion,
                  evaluation_vars >>

\* for i in range(5): sample = synth_df.sample(1) ...
ShowExamples ==
  /\ Running("trimmed")
  /\ \E r \in {SampleOneRepeatedly(synth_df, 5, rng)} :
        /\ rng' = r.rng
        /\ IF r.ok THEN pc' = "compared" /\ error' = ""
                   ELSE pc' = pc /\ error' = "ValueError"
  /\ UNCHANGED << data, row_is_view, X_train, y_train, X_test, y_test,
                  X_train_std, X_test_std, required_smote_count, X_synthetic,
                  y_synthetic, synth_df, runs, previous_synth_df, identical_proportion,
                  evaluation_vars >>

\* the draws of number_positive_stroke and number_negative_stroke records
SampleToOriginalBalance ==
  /\ Running("compared")
  /\ \E r \in {SampleToBalance(synth_df, number_positive_stroke,
                                  number_negative_stroke, rng)} :
        /\ rng' = r.rng
        /\ synth_df' = r.rows
        /\ IF r.ok THEN pc' = "done" /\ error' = ""
                   ELSE pc' = pc /\ error' = "ValueError"
  /\ UNCHANGED << data, row_is_view, X_train, y_train, X_test, y_test,
                  X_train_std, X_test_std, required_smote_count, X_synthetic,
                  y_synthetic, runs, previous_synth_df, identical_proportion,
                  evaluation_vars >>

\* X_synth_std, X_test_std = standardise_data(X_synth, X_test);
\* model_synth.fit(X_synth_std, y_synth);
\* y_pred_test_synth = model_synth.predict(X_test_std)
FitModelOnSyntheticData ==
  /\ Running("done")
  /\ \E std \in {standardise_data([j \in DOMAIN synth_df |-> synth_df[j].x], X_test)} :
        /\ X_test_std' = std.test_std
        /\ \E r \in {fit(std.train_std, [j \in DOMAIN synth_df |-> synth_df[j].stroke])} :
              /\ model_synth' = r.model
              /\ IF r.ok
                 THEN /\ y_pred_test_synth' = predict(r.model, std.test_std)
                      /\ pc' = "fitted_synth" /\ error' = ""
                 ELSE /\ y_pred_test_synth' = y_pred_test_synth
                      /\ pc' = pc /\ error' = "ValueError"
  /\ UNCHANGED << data, rng, row_is_view, X_train, y_train, X_test, y_test,
                  X_train_std, required_smote_count, X_synthetic, y_synthetic,
                  synth_df, runs, previous_synth_df, identical_proportion,
                  model, y_pred_train, y_pred_test, y_probs, y_probs_synthetic >>

\* y_probs = model.predict_proba(X_test_std)[:,1];
\* y_probs_synthetic = model_synth.predict_proba(X_test_std)[:,1]
RocCurves ==
  /\ Running("fitted_synth")
  /\ y_probs' = predict(model, X_test_std)
  /\ y_probs_synthetic' = predict(model_synth, X_test_std)
  /\ pc' = "roc"
  /\ UNCHANGED << data, rng, row_is_view, error, X_train, y_train, X_test,
                  y_test, X_train_std, X_test_std, required_smote_count,
                  X_synthetic, y_synthetic, synth_df, runs, previous_synth_df,
                  identical_proportion, model, model_synth, y_pred_train,
                  y_pred_test, y_pred_test_synth >>

Next ==
  \/ TrainTestSplit
  \/ StandardiseData
  \/ FitModel
  \/ PredictWithModel
  \/ CountClasses
  \/ GenerateRawSyntheticData
  \/ ProcessRawSyntheticData
  \/ FindNearestRealPoint
  \/ RemoveIdenticalPoints
  \/ RemoveClosestPoints
  \/ ShowExamples
  \/ SampleToOriginalBalance
  \/ FitModelOnSyntheticData
  \/ RocCurves

Spec == Init /\ [][Next]_vars

(***************************************************************************)
(* Properties of the notebook run                                          *)
(***************************************************************************)
\* the cells after which synth_df holds the filtered pool or the output
Filtered == {"deduplicated", "trimmed", "compared", "done", "fitted_synth", "roc"}

\* C1: whenever the rebalancing cell completes, synth_df holds exactly
\* number_negative_stroke records labelled 0 and number_positive_stroke
\* records labelled 1, the class counts of the full real dataset, and
\* nothing else
C1_RebalancedCounts ==
  pc = "done" =>
    /\ Len(WithLabel(synth_df, 0)) = number_negative_stroke
    /\ Len(WithLabel(synth_df, 1)) = number_positive_stroke
    /\ Len(synth_df) = number_negative_stroke + number_positive_stroke

\* a completed rebalancing that drew from a pool with both classes wanted
\* and more records generated than the output holds
C1_Witness ==
  /\ pc = "done" /\ error = ""
  /\ number_negative_stroke > 0 /\ number_positive_stroke > 0
  /\ Len(X_synthetic) > Len(synth_df)

\* C2: every record still in synth_df after the identity removal, and so
\* after the closest-fraction removal and in the final output, has a stored
\* distance_to_closest_real of at least 0.001
C2_StoredDistanceAtLeastThreshold ==
  pc \in Filtered =>
    \A j \in DOMAIN synth_df :
      synth_df[j].distance_to_closest_real >= identical_threshold

\* the identity removal has removed some records and kept others
C2_Witness ==
  /\ pc = "deduplicated"
  /\ synth_df # << >>
  /\ Len(synth_df) < Len(X_synthetic)

\* C3: no record of the final output is a copy of a real record: the
\* standardised distance from the record's own repaired feature vector to
\* every record of train and test is at least 0.001
C3_NoOutputRecordCopiesReal ==
  pc = "done" =>
    \A j \in DOMAIN synth_df : \A i \in DOMAIN data :
      StdSqDist(X_train_std.sc, synth_df[j].x, data[i].x) >= identical_threshold

C8_ShortPoolFails ==
  [][(/\ Running("compared")
      /\ \/ Len(WithLabel(synth_df, 0)) < number_negative_stroke
         \/ Len(WithLabel(synth_df, 1)) < number_positive_stroke)
     => (error' = "ValueError" /\ synth_df' = synth_df /\ pc' = "compared")]_vars

\* the rebalancing cell has failed on a pool that is not empty and is short
\* of a class
C8_Witness ==
  /\ pc = "compared" /\ error = "ValueError"
  /\ synth_df # << >>
  /\ \/ Len(WithLabel(synth_df, 0)) < number_negative_stroke
     \/ Len(WithLabel(synth_df, 1)) < number_positive_stroke

\* C9: when the identity removal discards every record, the run fails at
\* that cell and does not go on with an empty pool
C9_EmptyPoolFailsAtFilter ==
  [][(/\ Running("annotated")
      /\ synth_df # << >>
      /\ \A j \in DOMAIN synth_df : IsIdentical(synth_df[j]))
     => (error' # "" /\ pc' = "annotated")]_vars

(***************************************************************************)
(* The repair cell on arbitrary raw records                                *)
(*                                                                         *)
(* SpecRepair starts where the raw synthetic data has been generated, with *)
(* two raw records: one whose integer and binary values are drawn from     *)
(* every multiple of 1/Scale in a range, and one with both values on a     *)
(* half.  Its one step is the repair cell.                                 *)
(***************************************************************************)
\* the raw integer values tried: 0 .. MaxRawAge, in steps of 1/Scale
RawIntegerValues == 0 .. (MaxRawAge * Scale)

\* the raw binary values tried: -1 .. 2, in steps of 1/Scale
RawBinaryValues == (0 - Scale) .. (2 * Scale)

Prepared == train_test_split(Data1, 0)

InitRepair ==
  /\ data = Data1
  /\ rng \in 0 .. 1
  /\ row_is_view \in BOOLEAN
  /\ pc = "generated"
  /\ error = ""
  /\ X_train = Prepared.X_train /\ y_train = Prepared.y_train
  /\ X_test = Prepared.X_test /\ y_test = Prepared.y_test
  /\ X_train_std = standardise_data(X_train, X_test).train_std
  /\ X_test_std = standardise_data(X_train, X_test).test_std
  /\ required_smote_count = << 1, 1 >>
  /\ \E age \in RawIntegerValues, hyp \in RawBinaryValues :
       X_synthetic =
         << [index |-> Len(X_train),
             x |-> << age, hyp, 5, 3, 1, 2, 2 >>],
            [index |-> Len(X_train) + 1,
             x |-> << 2 * Scale + Scale \div 2, Scale \div 2, 7, 1, 3, 0, Scale >>] >>
  /\ y_synthetic = << 0, 1 >>
  /\ synth_df = << >>
  /\ runs = 1
  /\ previous_synth_df = << >>
  /\ identical_proportion = NoProportion
  /\ EvaluationOfRealData

NextRepair == ProcessRawSyntheticData

SpecRepair == InitRepair /\ [][NextRepair]_vars

\* the raw record a record of synth_df was made from: the one with its
\* index label
RawOf(row) ==
  X_synthetic[CHOOSE i \in DOMAIN X_synthetic : X_synthetic[i].index = row.index].x

\* C5 as stated: every integer-role value is repaired to the nearest whole
\* number, a half to the whole number above it (2.5 to 3, 3.5 to 4)
C5_RoundsHalfUp ==
  pc = "processed" =>
    \A j \in DOMAIN synth_df : \A k \in DOMAIN integer_cols :
      LET v == RawOf(synth_df[j])[integer_cols[k]]
          r == synth_df[j].x[integer_cols[k]]
      IN /\ r % Scale = 0
         /\ 2 * Abs(r - v) <= Scale
         /\ 2 * Abs(r - v) = Scale => r > v

\* C5, amended: every integer-role value is repaired to the nearest whole
\* number, a half to the even one of the two whole numbers next to it
\* (2.5 to 2, 3.5 to 4)
C5_RoundsHalfToEven ==
  pc = "processed" =>
    \A j \in DOMAIN synth_df : \A k \in DOMAIN integer_cols :
      LET v == RawOf(synth_df[j])[integer_cols[k]]
          r == synth_df[j].x[integer_cols[k]]
      IN /\ r % Scale = 0
         /\ 2 * Abs(r - v) <= Scale
         /\ 2 * Abs(r - v) = Scale => (r \div Scale) % 2 = 0

\* a repaired record whose raw integer value was a half above an even whole
\* number, and one whose raw value was neither whole nor a half
C5_Witness ==
  /\ pc = "processed"
  /\ \E j \in DOMAIN synth_df :
       LET v == RawOf(synth_df[j])[integer_cols[1]]
       IN 2 * (v % Scale) = Scale /\ (v \div Scale) % 2 = 0
  /\ \E j \in DOMAIN synth_df :
       LET v == RawOf(synth_df[j])[integer_cols[1]]
       IN v % Scale # 0 /\ 2 * (v % Scale) # Scale

\* C6: every binary-role value is repaired to 0 or 1, whatever the raw
\* value: to 0 when it is below 0.5 (also below 0), to 1 when it is above
\* 0.5 (also above 1), which is the clipped value rounded
C6_BinaryClippedThenRounded ==
  pc = "processed" =>
    \A j \in DOMAIN synth_df : \A k \in DOMAIN binary_cols :
      LET v == RawOf(synth_df[j])[binary_cols[k]]
          r == synth_df[j].x[binary_cols[k]]
      IN /\ r \in {0, Scale}
         /\ 2 * v < Scale => r = 0
         /\ 2 * v > Scale => r = Scale

\* repaired records whose raw binary values were one outside [0, 1] and one
\* exactly 0.5
C6_Witness ==
  /\ pc = "processed"
  /\ \E j \in DOMAIN synth_df :
       LET v == RawOf(synth_df[j])[binary_cols[1]] IN v < 0 \/ v > Scale
  /\ \E j \in DOMAIN synth_df : 2 * RawOf(synth_df[j])[binary_cols[1]] = Scale

(***************************************************************************)
(* make_synthetic_data_smote on its own                                    *)
(*                                                                         *)
(* SpecSmote starts where the function is about to be called, with X and y *)
(* a whole dataset and number_of_samples any pair of counts up to          *)
(* MaxSamples.  Its one step is the call.                                  *)
(***************************************************************************)
InitSmote ==
  /\ data \in Datasets
  /\ rng \in 0 .. MaxSeed
  /\ row_is_view = TRUE
  /\ pc = "counted"
  /\ error = ""
  /\ X_train = [i \in DOMAIN data |-> data[i].x]
  /\ y_train = Labels(data)
  /\ X_test = << >> /\ y_test = << >>
  /\ X_train_std = standardise_data(X_train, X_test).train_std
  /\ X_test_std = standardise_data(X_train, X_test).test_std
  /\ required_smote_count \in [1 .. 2 -> 0 .. MaxSamples]
  /\ X_synthetic = << >> /\ y_synthetic = << >>
  /\ synth_df = << >>
  /\ runs = 1
  /\ previous_synth_df = << >>
  /\ identical_proportion = NoProportion
  /\ EvaluationOfRealData

NextSmote == GenerateRawSyntheticData

SpecSmote == InitSmote /\ [][NextSmote]_vars

\* C7: make_synthetic_data_smote(X, y, [n0, n1]), when it returns, returns
\* n0 + n1 records and as many labels, n0 of them 0 and n1 of them 1, and
\* the records are the rows at the positions len(X), len(X) + 1, ... of the
\* resampled data: none is at the position of an input row
C7_ReturnsRequestedCounts ==
  pc = "generated" =>
    /\ Len(X_synthetic) = required_smote_count[1] + required_smote_count[2]
    /\ Len(y_synthetic) = Len(X_synthetic)
    /\ CountEq(y_synthetic, 0) = required_smote_count[1]
    /\ CountEq(y_synthetic, 1) = required_smote_count[2]
    /\ \A i \in DOMAIN X_synthetic : X_synthetic[i].index = Len(X_train) + i - 1

\* a call that has returned records of both classes, in different numbers
C7_Witness ==
  /\ pc = "generated"
  /\ required_smote_count[1] > 0 /\ required_smote_count[2] > 0
  /\ required_smote_count[1] # required_smote_count[2]
  /\ Len(X_synthetic) = required_smote_count[1] + required_smote_count[2]

(***************************************************************************)
(* The notebook run a second time                                          *)
(*                                                                         *)
(* The notebook takes no seed and passes no random_state to                *)
(* train_test_split, SMOTE or sample: every random choice comes from       *)
(* numpy's global generator, whose state at the start of a run is not set  *)
(* by the notebook.  SpecRerun runs the notebook again on the same data    *)
(* after a run that completed, and keeps the first run's output.           *)
(***************************************************************************)
Restart ==
  /\ pc = "done" /\ error = "" /\ runs = 1
  /\ runs' = 2
  /\ previous_synth_df' = synth_df
  /\ rng' \in 0 .. MaxRerunSeed
  /\ pc' = "loaded"
  /\ X_train' = << >> /\ y_train' = << >> /\ X_test' = << >> /\ y_test' = << >>
  /\ X_train_std' = NoArray /\ X_test_std' = NoArray
  /\ required_smote_count' = << >>
  /\ X_synthetic' = << >> /\ y_synthetic' = << >>
  /\ synth_df' = << >>
  /\ identical_proportion' = NoProportion
  /\ model' = NoModel /\ model_synth' = NoModel
  /\ y_pred_train' = NoPrediction /\ y_pred_test' = NoPrediction
  /\ y_pred_test_synth' = NoPrediction
  /\ y_probs' = NoPrediction /\ y_probs_synthetic' = NoPrediction
  /\ UNCHANGED << data, row_is_view, error >>

NextRerun == Next \/ Restart

SpecRerun == Init /\ [][NextRerun]_vars

\* C10: two runs of the notebook on the same inputs give the same final
\* output, the same records in the same order (the notebook has no seed to
\* set: the inputs of a run are the data)
C10_SecondRunGivesSameOutput ==
  (runs = 2 /\ pc = "done") => synth_df = previous_synth_df

(***************************************************************************)
(* More properties of the repair cell (SpecRepair)                         *)
(***************************************************************************)
\* C11: the repair is idempotent: the one-hot loop, the integer rounding and
\* the binary clip and round applied to a record of the repaired pool give
\* that record again
C11_RepairIdempotent ==
  pc = "processed" =>
    \A j \in DOMAIN synth_df :
      RepairRow(synth_df[j].x, row_is_view) = synth_df[j].x

\* a repaired pool in which the repair changed the one-hot, the integer and
\* the binary values of a record
C11_Witness ==
  /\ pc = "processed" /\ row_is_view
  /\ \E j \in DOMAIN synth_df :
       LET raw == RawOf(synth_df[j])
           x == synth_df[j].x
       IN /\ x[integer_cols[1]] # raw[integer_cols[1]]
          /\ x[binary_cols[1]] # raw[binary_cols[1]]
          /\ x[one_hot_cols[1][1]] # raw[one_hot_cols[1][1]]

(***************************************************************************)
(* More properties of make_synthetic_data_smote (SpecSmote)                *)
(***************************************************************************)
\* r lies between p and q in every feature
Between(r, p, q) ==
  \A c \in Cols :
    /\ (IF p[c] < q[c] THEN p[c] ELSE q[c]) <= r[c]
    /\ r[c] <= (IF p[c] < q[c] THEN q[c] ELSE p[c])

\* C12: every raw synthetic record lies, in every feature, between two
\* input records of its class (its base point and the neighbour); so every
\* raw binary-role value lies in [0, 1] and the clip of the repair leaves it
\* as it is
C12_RawRecordBetweenSourcePair ==
  pc = "generated" =>
    \A i \in DOMAIN X_synthetic :
      /\ \E p, q \in DOMAIN X_train :
           /\ y_train[p] = y_synthetic[i] /\ y_train[q] = y_synthetic[i]
           /\ Between(X_synthetic[i].x, X_train[p], X_train[q])
      /\ \A k \in DOMAIN binary_cols :
           LET v == X_synthetic[i].x[binary_cols[k]]
           IN 0 <= v /\ v <= Scale /\ Clip01(v) = v

\* a raw record strictly inside its pair in the integer-role feature, with
\* a binary-role value strictly between 0 and 1
C12_Witness ==
  /\ pc = "generated"
  /\ \E i \in DOMAIN X_synthetic : \E p, q \in DOMAIN X_train :
       LET r == X_synthetic[i].x
       IN /\ y_train[p] = y_synthetic[i] /\ y_train[q] = y_synthetic[i]
          /\ Between(r, X_train[p], X_train[q])
          /\ r[integer_cols[1]] # X_train[p][integer_cols[1]]
          /\ r[integer_cols[1]] # X_train[q][integer_cols[1]]
          /\ 0 < r[binary_cols[1]] /\ r[binary_cols[1]] < Scale

(***************************************************************************)
(* More properties of the notebook run (Spec)                              *)
(***************************************************************************)
\* records are wanted of a class that has fewer than k_neighbors + 1
\* records in the training set
ShortClassRequested ==
  /\ Len(required_smote_count) = 2
  /\ \E c \in {0, 1} :
       /\ required_smote_count[c + 1] > 0
       /\ Len(ClassRows(X_train, y_train, c)) < k_neighbors + 1

X_synth == [j \in DOMAIN synth_df |-> synth_df[j].x]

\* the feature rows of the raw synthetic data
X_synthetic_rows == [i \in DOMAIN X_synthetic |-> X_synthetic[i].x]

\* C14: standardise_data(A, B) takes the mean and the standard deviation
\* from A only and applies them to A and to B, and changes neither A nor B;
\* in each of the notebook's three calls: (X_train, X_test),
\* (X_train, X_synthetic) and (X_synth, X_test)
C14_StatisticsOfFirstArgumentOnly ==
  [][/\ Running("split") =>
          /\ X_train_std' = [sc |-> Fit(X_train), rows |-> X_train]
          /\ X_test_std' = [sc |-> Fit(X_train), rows |-> X_test]
          /\ X_train' = X_train /\ X_test' = X_test
     /\ Running("processed") =>
          /\ X_train_std' = [sc |-> Fit(X_train), rows |-> X_train]
          /\ X_train' = X_train /\ X_synthetic' = X_synthetic
     /\ Running("done") =>
          /\ X_test_std' = [sc |-> Fit(X_synth), rows |-> X_test]
          /\ X_test' = X_test /\ X_synth' = X_synth]_vars

\* the test set has been standardised, and its own statistics differ from
\* the ones applied to it
C14_Witness ==
  /\ pc = "standardised"
  /\ X_test # << >>
  /\ X_test_std.rows = X_test
  /\ X_test_std.sc # Fit(X_test)

\* C15: every array handed to a classifier is standardised with the
\* statistics of the array the classifier was fitted on, and the arrays
\* handed to the nearest-neighbour search share the statistics of the
\* training set; also after X_test_std is computed again for the classifier
\* of the synthetic data
C15_SameStatisticsAsFittedOn ==
  /\ \A p \in {y_pred_train, y_pred_test, y_pred_test_synth, y_probs,
               y_probs_synthetic} :
       p.by.fitted_on = p.of.sc
  /\ pc \in {"processed", "annotated"} =>
       X_train_std.sc = Fit(X_train) /\ X_test_std.sc = Fit(X_train)

\* the cells after which synth_df carries the two nearest-real columns
Annotated == {"annotated"} \cup Filtered

\* all the real records, the training set first: np.concatenate([X_train, X_test])
X_real == X_train \o X_test

\* the nearest real record of feature vector x and its distance, under the
\* statistics of the training set
NearestReal(x) == kneighbors(Fit(X_train), X_real, << x >>)[1]

\* C16: the distance and the index stored on a record of the pool are the
\* ones computed for the feature vector that record was generated with,
\* although the pool was shuffled before they were assigned
C16_AnnotationOfSameRecord ==
  pc \in Annotated =>
    \A j \in DOMAIN synth_df :
      /\ synth_df[j].distance_to_closest_real = NearestReal(RawOf(synth_df[j])).dist
      /\ synth_df[j].closest_X_real_row_index = NearestReal(RawOf(synth_df[j])).idx

\* C17: the distance stored on a record is the distance of its repaired
\* feature vector, standardised with the training-set statistics, to its
\* nearest real record
C17_DistanceOfRepairedVector ==
  pc \in Annotated =>
    \A j \in DOMAIN synth_df :
      synth_df[j].distance_to_closest_real = NearestReal(synth_df[j].x).dist

\* C18: the nearest-neighbour search of the j-th generated vector looks in
\* the training rows followed by the test rows, all of both classes, under
\* the training-set statistics; the stored index counts from 0 in that
\* order, which is the order of X_real
C18_NearestOfTrainThenTest ==
  pc = "annotated" =>
    /\ X_train_std.sc = Fit(X_train) /\ X_test_std.sc = Fit(X_train)
    /\ \A j \in DOMAIN synth_df :
         LET q == X_synthetic[j].x
             i == synth_df[j].closest_X_real_row_index
             d == synth_df[j].distance_to_closest_real
         IN /\ i \in 0 .. Len(X_real) - 1
            /\ d = StdSqDist(Fit(X_train), q, X_real[i + 1])
            /\ \A r \in DOMAIN X_real : d <= StdSqDist(Fit(X_train), q, X_real[r])

C18_Witness ==
  /\ pc = "annotated"
  /\ \E j \in DOMAIN synth_df :
       synth_df[j].closest_X_real_row_index >= Len(X_train)
  /\ \E j \in DOMAIN synth_df :
       /\ synth_df[j].closest_X_real_row_index \in 1 .. Len(X_train) - 1
       /\ y_train[synth_df[j].closest_X_real_row_index + 1] = 0
  /\ \E j \in DOMAIN synth_df :
       /\ synth_df[j].closest_X_real_row_index < Len(X_train)
       /\ y_train[synth_df[j].closest_X_real_row_index + 1] = 1

\* positions of the pool whose stored distance is not below the threshold
NotIdentical == {j \in DOMAIN synth_df :
                   synth_df[j].distance_to_closest_real >= identical_threshold}

\* the k-th smallest member of a set of positions
Nth(S, k) == CHOOSE j \in S : Cardinality({i \in S : i <= j}) = k

\* C19: the removal of identical points discards exactly the records whose
\* stored distance is below 0.001 and keeps the others in their order; the
\* proportion it reports is the number discarded over the size of the pool
\* before the removal
C19_DiscardsExactlyBelowThreshold ==
  [][Running("annotated") /\ pc' = "deduplicated" =>
       /\ Len(synth_df') = Cardinality(NotIdentical)
       /\ \A k \in DOMAIN synth_df' : synth_df'[k] = synth_df[Nth(NotIdentical, k)]
       /\ identical_proportion'.identical = Len(synth_df) - Cardinality(NotIdentical)
       /\ identical_proportion'.of = Len(synth_df)]_vars

C19_Witness ==
  /\ pc = "deduplicated"
  /\ identical_proportion.identical > 0
  /\ identical_proportion.identical < identical_proportion.of
  /\ Len(synth_df) = identical_proportion.of - identical_proportion.identical

(***************************************************************************)
(* The closest-fraction removal on pools of every size                     *)
(*                                                                         *)
(* SpecTrim starts where the identity removal has completed, with a pool   *)
(* of 0 .. MaxPool records, none of them identical to a real record.  Its  *)
(* one step is the cell that removes the closest records.                  *)
(***************************************************************************)
\* a pool of n records after the identity removal: training rows taken in
\* turn, with distances 1 .. 5 times the threshold
TrimPool(n) ==
  [j \in 1 .. n |->
     [index |-> Len(Prepared.X_train) + j - 1,
      x |-> Prepared.X_train[((j - 1) % Len(Prepared.X_train)) + 1],
      stroke |-> j % 2,
      distance_to_closest_real |-> identical_threshold * (1 + ((j * 7) % 5)),
      closest_X_real_row_index |-> (j - 1) % Len(Prepared.X_train)]]

InitTrim ==
  /\ data = Data1
  /\ rng \in 0 .. MaxSeed
  /\ row_is_view = TRUE
  /\ pc = "deduplicated"
  /\ error = ""
  /\ X_train = Prepared.X_train /\ y_train = Prepared.y_train
  /\ X_test = Prepared.X_test /\ y_test = Prepared.y_test
  /\ X_train_std = standardise_data(X_train, X_test).train_std
  /\ X_test_std = standardise_data(X_train, X_test).test_std
  /\ \E n \in 0 .. MaxPool :
       /\ synth_df = TrimPool(n)
       /\ X_synthetic = [j \in 1 .. n |-> [index |-> TrimPool(n)[j].index,
                                           x |-> TrimPool(n)[j].x]]
       /\ y_synthetic = [j \in 1 .. n |-> TrimPool(n)[j].stroke]
       /\ required_smote_count = << n \div 2, n - (n \div 2) >>
       /\ identical_proportion = [identical |-> 0, of |-> n]
  /\ runs = 1
  /\ previous_synth_df = << >>
  /\ EvaluationOfRealData

NextTrim == RemoveClosestPoints

SpecTrim == InitTrim /\ [][NextTrim]_vars

\* C20: the closest-fraction removal keeps floor(count * (1 - 0.1)) records
\* of a pool of count records, for every count from 0: 9 of 10, none of 1,
\* none of 0
C20_KeepsFloorOfNineTenths ==
  [][Running("deduplicated") /\ pc' = "trimmed" =>
       /\ 10 * Len(synth_df') <= 9 * Len(synth_df)
       /\ 9 * Len(synth_df) < 10 * (Len(synth_df') + 1)
       /\ Len(synth_df) = 10 => Len(synth_df') = 9
       /\ Len(synth_df) \in {0, 1} => Len(synth_df') = 0]_vars

C20_Witness ==
  /\ pc = "trimmed" /\ error = ""
  /\ identical_proportion = [identical |-> 0, of |-> 10]
  /\ Len(synth_df) = 9

\* the index labels of the records of a frame
IndexLabels(df) == {df[j].index : j \in DOMAIN df}

\* C21: the closest-fraction removal keeps records of the pool, whatever
\* their class, and no record it discards has a stored distance strictly
\* greater than that of a record it keeps
C21_KeepsLargestDistances ==
  [][Running("deduplicated") /\ pc' = "trimmed" =>
       /\ \A k \in DOMAIN synth_df' : \E j \in DOMAIN synth_df : synth_df'[k] = synth_df[j]
       /\ \A j \in DOMAIN synth_df :
            synth_df[j].index \notin IndexLabels(synth_df') =>
              \A k \in DOMAIN synth_df' :
                synth_df[j].distance_to_closest_real
                  <= synth_df'[k].distance_to_closest_real]_vars

C21_Witness ==
  /\ pc = "trimmed" /\ error = ""
  /\ Len(synth_df) < identical_proportion.of - identical_proportion.identical
  /\ \E j, k \in DOMAIN synth_df :
       /\ synth_df[j].stroke = 0 /\ synth_df[k].stroke = 1
       /\ synth_df[j].distance_to_closest_real # synth_df[k].distance_to_closest_real
  /\ \E i \in DOMAIN X_synthetic :
       /\ X_synthetic[i].index \notin IndexLabels(synth_df)
       /\ \E k \in DOMAIN synth_df : synth_df[k].stroke # y_synthetic[i]

\* r is p + step * (q - p) for a step of 0, 1/Scale, ... below 1
Interpolated(r, p, q) ==
  \E step \in 0 .. Scale - 1 :
    \A c \in Cols : r[c] = p[c] + (step * (q[c] - p[c])) \div Scale

\* C22: every raw synthetic record labelled c is interpolated from two
\* records of the training set that both carry label c; no test record and
\* no record of the other class is needed to explain it
C22_InterpolatedWithinClassOfTrainingSet ==
  [][Running("counted") /\ pc' = "generated" =>
       \A i \in DOMAIN X_synthetic' :
         \E p, q \in DOMAIN X_train :
           /\ y_train[p] = y_synthetic'[i] /\ y_train[q] = y_synthetic'[i]
           /\ Interpolated(X_synthetic'[i].x, X_train[p], X_train[q])]_vars

\* records of both classes were generated, one of them strictly inside its
\* pair, while the test set and the other class hold rows that no training
\* row of the record's class equals
C22_Witness ==
  /\ pc = "generated"
  /\ \E i, j \in DOMAIN X_synthetic : y_synthetic[i] = 0 /\ y_synthetic[j] = 1
  /\ \E i \in DOMAIN X_synthetic :
       /\ \A p \in DOMAIN X_train : X_train[p] # X_synthetic[i].x
       /\ \E t \in DOMAIN X_test :
            /\ y_test[t] = y_synthetic[i]
            /\ \A p \in DOMAIN X_train : X_train[p] # X_test[t]
       /\ \E p \in DOMAIN X_train : y_train[p] # y_synthetic[i]

(***************************************************************************)
(* make_one_hot on groups of any values                                    *)
(*                                                                         *)
(* SpecOneHot starts where the raw synthetic data has been generated, with *)
(* one raw record whose one-hot columns hold every combination of the      *)
(* multiples of 1/Scale in [0, 1].  Its one step is the repair cell.       *)
(***************************************************************************)
RawOneHotValues == 0 .. Scale

InitOneHot ==
  /\ data = Data1
  /\ rng \in 0 .. 1
  /\ row_is_view \in BOOLEAN
  /\ pc = "generated"
  /\ error = ""
  /\ X_train = Prepared.X_train /\ y_train = Prepared.y_train
  /\ X_test = Prepared.X_test /\ y_test = Prepared.y_test
  /\ X_train_std = standardise_data(X_train, X_test).train_std
  /\ X_test_std = standardise_data(X_train, X_test).test_std
  /\ required_smote_count = << 1, 0 >>
  /\ \E female, male, private, self \in RawOneHotValues :
       X_synthetic =
         << [index |-> Len(X_train),
             x |-> << 2 * Scale, 0, 5, female, male, private, self >>] >>
  /\ y_synthetic = << 0 >>
  /\ synth_df = << >>
  /\ runs = 1
  /\ previous_synth_df = << >>
  /\ identical_proportion = NoProportion
  /\ EvaluationOfRealData

NextOneHot == ProcessRawSyntheticData

SpecOneHot == InitOneHot /\ [][NextOneHot]_vars

\* the values of a record in the columns of a one-hot group
GroupValues(row, one_hot_list) == [i \in DOMAIN one_hot_list |-> row[one_hot_list[i]]]

\* one is 1 at position h and 0 elsewhere, and h is the first position of
\* the highest value of x
IsOneHotOfFirstHighest(one, x) ==
  \E h \in DOMAIN x :
    /\ \A j \in DOMAIN x : x[j] <= x[h]
    /\ \A j \in DOMAIN x : j < h => x[j] < x[h]
    /\ DOMAIN one = DOMAIN x
    /\ \A j \in DOMAIN x : one[j] = (IF j = h THEN Scale ELSE 0)

\* C23: make_one_hot sets to 1 the column that holds the highest value of
\* the group, the first of them in declared order when several tie, and
\* every other column of the group to 0; the repaired record holds that
\* result when the loop's write reaches the frame
C23_OneAtFirstHighest ==
  /\ \A i \in DOMAIN X_synthetic : \A g \in DOMAIN one_hot_cols :
       IsOneHotOfFirstHighest(
         make_one_hot(GroupValues(X_synthetic[i].x, one_hot_cols[g])),
         GroupValues(X_synthetic[i].x, one_hot_cols[g]))
  /\ (pc = "processed" /\ row_is_view) =>
       \A j \in DOMAIN synth_df : \A g \in DOMAIN one_hot_cols :
         IsOneHotOfFirstHighest(
           GroupValues(synth_df[j].x, one_hot_cols[g]),
           GroupValues(RawOf(synth_df[j]), one_hot_cols[g]))

\* a repaired record whose first group tied at a value above 0 and whose
\* second group had its highest value in the last column
C23_Witness ==
  /\ pc = "processed" /\ row_is_view
  /\ \E j \in DOMAIN synth_df :
       LET raw == RawOf(synth_df[j])
           first == one_hot_cols[1]
           second == one_hot_cols[2]
       IN /\ raw[first[1]] = raw[first[2]] /\ raw[first[1]] > 0
          /\ synth_df[j].x[first[1]] = Scale /\ synth_df[j].x[first[2]] = 0
          /\ raw[second[1]] < raw[second[2]]
          /\ synth_df[j].x[second[1]] = 0 /\ synth_df[j].x[second[2]] = Scale

\* C24: the rebalancing draws without replacement from the records of the
\* filtered pool of each class: every record of the output is a record of
\* the pool, with its label, and no record of the pool is in the output
\* more than once
C24_DrawnWithoutReplacement ==
  [][Running("compared") /\ pc' = "done" =>
       /\ \A k \in DOMAIN synth_df' : \E j \in DOMAIN synth_df :
            /\ synth_df'[k] = synth_df[j]
            /\ synth_df'[k].stroke = synth_df[j].stroke
       /\ \A j \in DOMAIN synth_df :
            Cardinality({k \in DOMAIN synth_df' :
                           synth_df'[k].index = synth_df[j].index}) <= 1
       /\ \A j, k \in DOMAIN synth_df :
            synth_df[j].index = synth_df[k].index => j = k]_vars

\* a completed draw that took records of both classes and left a record of
\* the pool out
C24_Witness ==
  /\ pc = "done" /\ error = ""
  /\ \E j, k \in DOMAIN synth_df : synth_df[j].stroke = 0 /\ synth_df[k].stroke = 1
  /\ Len(synth_df) + 1 < identical_proportion.of - identical_proportion.identical

\* the filtered pool holds of each class at least the class's count in the
\* real data
PoolSuffices ==
  /\ Len(WithLabel(synth_df, 0)) >= number_negative_stroke
  /\ Len(WithLabel(synth_df, 1)) >= number_positive_stroke

\* C25 as stated: with twice the training count generated of each class,
\* the pool that reaches the rebalancing cell always holds the target count
\* of each class
C25_PoolAlwaysSuffices == pc = "compared" => PoolSuffices

\* C25: the pool that reaches the rebalancing cell holds of each class at
\* most twice the class's count in the training set, which can be less than
\* the target; the draw succeeds when the pool holds the target count of
\* each class and only then
C25_DrawSucceedsIffPoolSuffices ==
  [][Running("compared") /\ (pc' = "done" \/ error' # "") =>
       /\ \A c \in {0, 1} : Len(WithLabel(synth_df, c)) <= 2 * CountEq(y_train, c)
       /\ (pc' = "done" /\ error' = "") <=> PoolSuffices]_vars

\* the draw has failed on a pool that holds enough records of one class and
\* too few, though some, of the other
C25_Witness ==
  /\ pc = "compared" /\ error = "ValueError"
  /\ \E c \in {0, 1} :
       /\ CountEq(y_synthetic, c) = 2 * CountEq(y_train, c)
       /\ Len(WithLabel(synth_df, c)) > 0
       /\ Len(WithLabel(synth_df, c)) < CountEq(Labels(data), c)
       /\ Len(WithLabel(synth_df, 1 - c)) >= CountEq(Labels(data), 1 - c)

\* the columns in no role group: neither one-hot, nor integer, nor binary
UnassignedCols ==
  {c \in Cols : /\ ~InSeq(integer_cols, c)
                /\ ~InSeq(binary_cols, c)
                /\ \A g \in DOMAIN one_hot_cols : ~InSeq(one_hot_cols[g], c)}

\* C26: the repair leaves every column that is in no role group as it was
\* generated, in every record
C26_UnassignedColumnsAsGenerated ==
  pc = "processed" =>
    \A j \in DOMAIN synth_df : \A c \in UnassignedCols :
      synth_df[j].x[c] = RawOf(synth_df[j])[c]

\* a repaired record that kept a fraction in an unassigned column while its
\* integer-role value was rounded
C26_Witness ==
  /\ pc = "processed"
  /\ \E j \in DOMAIN synth_df : \E c \in UnassignedCols :
       /\ synth_df[j].x[c] % Scale # 0
       /\ synth_df[j].x[integer_cols[1]] # RawOf(synth_df[j])[integer_cols[1]]

(***************************************************************************)
(* The order of the repair loops (SpecRepair)                              *)
(***************************************************************************)
\* the two nested loops of the cell run over a sequence of (group, record)
\* pairs: each turn repairs one group of one record of the frame
RECURSIVE OneHotLoop(_, _, _)
OneHotLoop(frame, turns, view) ==
  IF turns = << >> THEN frame
  ELSE LET g == Head(turns)[1]
           i == Head(turns)[2]
           written == IF view THEN OneHotRow(frame[i], one_hot_cols[g]) ELSE frame[i]
       IN OneHotLoop([frame EXCEPT ![i] = written], Tail(turns), view)

\* the loops, then the roundings of the integer and the binary columns
RepairInOrder(frame, turns, view) ==
  LET looped == OneHotLoop(frame, turns, view)
  IN [i \in DOMAIN frame |-> ClipRoundBinaryCols(RoundIntegerCols(looped[i]))]

\* every (group, record) pair of a frame of n records
Turns(n) == (DOMAIN one_hot_cols) \X (1 .. n)

\* every order in which each pair has one turn
TurnOrders(n) ==
  {t \in [1 .. Cardinality(Turns(n)) -> Turns(n)] :
     \A a, b \in DOMAIN t : t[a] = t[b] => a = b}

\* the record of synth_df with the index label of the i-th raw record
RepairedOf(i) ==
  synth_df[CHOOSE j \in DOMAIN synth_df : synth_df[j].index = X_synthetic[i].index].x

\* C27: the repaired pool is the same in whatever order the records and the
\* one-hot groups are taken; a record is repaired as it would be on its own,
\* whatever the other records are; and the repair of a one-hot group of a
\* record is make_one_hot of that group's values in that record
C27_RepairIndependentOfOrderAndOfOtherRecords ==
  pc = "processed" =>
    /\ \A t \in TurnOrders(Len(X_synthetic)) : \A i \in DOMAIN X_synthetic :
         RepairInOrder(X_synthetic_rows, t, row_is_view)[i] = RepairedOf(i)
    /\ \A i \in DOMAIN X_synthetic : \A t \in TurnOrders(1) :
         RepairInOrder(<< X_synthetic[i].x >>, t, row_is_view)[1] = RepairedOf(i)
    /\ row_is_view =>
         \A i \in DOMAIN X_synthetic : \A g \in DOMAIN one_hot_cols :
           GroupValues(RepairedOf(i), one_hot_cols[g])
             = make_one_hot(GroupValues(X_synthetic[i].x, one_hot_cols[g]))

\* two records were repaired, each in a group and in an integer-role value,
\* and there are orders of the turns that start with either record and
\* either group
C27_Witness ==
  /\ pc = "processed" /\ row_is_view
  /\ Len(X_synthetic) = 2
  /\ \A i \in DOMAIN X_synthetic :
       /\ \E g \in DOMAIN one_hot_cols :
            GroupValues(RepairedOf(i), one_hot_cols[g])
              # GroupValues(X_synthetic[i].x, one_hot_cols[g])
       /\ RepairedOf(i)[integer_cols[1]] # X_synthetic[i].x[integer_cols[1]]
  /\ \A first \in Turns(2) : \E t \in TurnOrders(2) : t[1] = first

\* C28: once the repair cell has run, no cell changes the feature values or
\* the label of a record of the pool: the annotation adds its two columns,
\* and every other cell keeps whole records, dropping or reordering some
C28_LaterCellsKeepFeaturesAndLabel ==
  [][(pc \in {"processed"} \cup Annotated) =>
       \A k \in DOMAIN synth_df' : \E j \in DOMAIN synth_df :
         /\ synth_df'[k].index = synth_df[j].index
         /\ synth_df'[k].x = synth_df[j].x
         /\ synth_df'[k].stroke = synth_df[j].stroke
         /\ (pc # "processed" => synth_df'[k] = synth_df[j])]_vars

\* a completed run whose records still hold the repaired values of the raw
\* records with their index labels, a repaired value among them
C28_Witness ==
  /\ pc = "roc" /\ error = ""
  /\ synth_df # << >>
  /\ \A j \in DOMAIN synth_df :
       /\ synth_df[j].x = RepairRow(RawOf(synth_df[j]), row_is_view)
       /\ synth_df[j].distance_to_closest_real # NoValue
  /\ \E j \in DOMAIN synth_df : synth_df[j].x # RawOf(synth_df[j])
  /\ Len(synth_df) < Len(X_synthetic)

\* the index labels of the raw records
RawIndexLabels == {X_synthetic[i].index : i \in DOMAIN X_synthetic}

\* C29: from the generation on the pool never grows: the records after a
\* cell are records from before it (the raw records, for the repair cell),
\* none twice, so the records of the output are among the raw records
\* returned by make_synthetic_data_smote and are at most n0 + n1
C29_PoolNeverGrows ==
  [][(pc \in {"generated", "processed"} \cup Annotated) =>
       /\ IndexLabels(synth_df') \subseteq
            (IF pc = "generated" THEN RawIndexLabels ELSE IndexLabels(synth_df))
       /\ Cardinality(IndexLabels(synth_df')) = Len(synth_df')
       /\ Len(synth_df') <= (IF pc = "generated" THEN Len(X_synthetic) ELSE Len(synth_df))
       /\ IndexLabels(synth_df') \subseteq RawIndexLabels
       /\ Len(synth_df') <= required_smote_count[1] + required_smote_count[2]]_vars

\* a completed rebalancing whose output is smaller than the pool after the
\* identity removal, itself smaller than the raw data
C29_Witness ==
  /\ pc = "done" /\ error = ""
  /\ 0 < Len(synth_df)
  /\ Len(synth_df) < identical_proportion.of - identical_proportion.identical
  /\ identical_proportion.identical > 0
  /\ identical_proportion.of = Len(X_synthetic)
  /\ Len(X_synthetic) = required_smote_count[1] + required_smote_count[2]

\* frame a holds the records of frame b, each once, in some order (the
\* index labels of b are distinct)
IsPermutationOf(a, b) ==
  /\ Len(a) = Len(b)
  /\ Cardinality(IndexLabels(a)) = Len(a)
  /\ \A k \in DOMAIN b : \E j \in DOMAIN a : a[j] = b[k]

\* the label generated with the raw record of index label l
GeneratedLabel(l) ==
  y_synthetic[CHOOSE i \in DOMAIN X_synthetic : X_synthetic[i].index = l]

\* C30: each shuffle of the pool permutes whole records: the shuffle after
\* the repair holds every repaired record once with the label generated
\* with it, the shuffle after the closest-fraction removal holds the records
\* kept, the shuffle after the rebalancing holds the records drawn, and a
\* record's label stays the one generated with its feature vector
C30_ShufflesPermuteWholeRecords ==
  [][/\ (Running("generated") /\ pc' = "processed") =>
          IsPermutationOf(synth_df',
                          [i \in DOMAIN X_synthetic |->
                             [index |-> X_synthetic[i].index,
                              x |-> RepairRow(X_synthetic[i].x, row_is_view),
                              stroke |-> y_synthetic[i],
                              distance_to_closest_real |-> NoValue,
                              closest_X_real_row_index |-> NoValue]])
     /\ (Running("deduplicated") /\ pc' = "trimmed") =>
          IsPermutationOf(synth_df', KeepFarthest(synth_df))
     /\ (Running("compared") /\ pc' = "done") =>
          /\ Cardinality(IndexLabels(synth_df')) = Len(synth_df')
          /\ Len(synth_df') = number_positive_stroke + number_negative_stroke
          /\ \A k \in DOMAIN synth_df' : \E j \in DOMAIN synth_df : synth_df'[k] = synth_df[j]
     /\ (pc' \in {"processed"} \cup Annotated) =>
          \A j \in DOMAIN synth_df' :
            synth_df'[j].stroke = GeneratedLabel(synth_df'[j].index)]_vars

\* a completed run whose output is not in the order of generation and holds
\* records of both classes
C30_Witness ==
  /\ pc = "done" /\ error = ""
  /\ \E j, k \in DOMAIN synth_df :
       /\ j < k /\ synth_df[j].index > synth_df[k].index
       /\ synth_df[j].stroke # synth_df[k].stroke
  /\ \A j \in DOMAIN synth_df : synth_df[j].stroke = GeneratedLabel(synth_df[j].index)

=============================================================================
